---- MODULE Spec2Model ----
(***************************************************************************)
(* Knowledge-graph construction and natural-language query engine of       *)
(* Zentech-KnowledgeGraph: Neo4jConnection (src/graph_db.py and its        *)
(* refactoring src/Modules/DBUtils.py) and the question flow that calls it *)
(* (src/app.py, src/Modules/appUi.py).                                     *)
(*                                                                         *)
(* Python strings are modelled as sequences of one-character strings, so   *)
(* that upper(), replace(), re.sub(), split(), strip() and the `in` test   *)
(* are computed character by character, as the interpreter computes them.  *)
(***************************************************************************)
EXTENDS Integers, Sequences, FiniteSets, Bags, TLC

VARIABLES
    entities,          \* graph store: bag of Entity nodes, by name
    relationships,     \* graph store: bag of relationships <<e1, type, e2>>
    pc,                \* the operation in progress ("idle" when none)
    triples,           \* add_triples: its argument
    grouped_triples,   \* add_triples: the groups still to be written, in dict order
    writes,            \* add_triples: the write operations issued by this call
    outcome,           \* add_triples: "none", "returned" or "raised"
    pre_entities,      \* the Entity bag when the running/last add_triples started
    pre_relationships, \* the relationship bag when it started
    prev_call,         \* SpecTwice: the one-triple argument of the call that returned just before
    rel,               \* the relation label the sanitizer is applied to
    sanitized_rel,     \* the sanitizer's result for rel (<<>> before it ran)
    graph_built,       \* st.session_state.graph_built
    llm_output,        \* question flow: what model.generate gave generate_cypher
    prompt_schema,     \* generate_cypher: the schema embedded in its prompt
    cypher_query,      \* question flow: the value generate_cypher returned
    gen_outcome,       \* generate_cypher: "none", "returned" or "raised"
    rejected,          \* generate_cypher raised its ValueError for a write operation
    reads,             \* question flow: the read queries it sent to the store
    response_text,     \* question flow: the assistant message of this question
    entity_string,     \* search_graph (DBUtils): the entity list the model gave
    sg_entities,       \* search_graph: its candidate names, `entities`
    sg_called,         \* search_graph ran in this question flow
    raw_data,          \* visualize_subgraph: the rows search_graph returned
    nodes,             \* visualize_subgraph: the node list it built
    edges,             \* visualize_subgraph: the edge list it built
    session_log,       \* driver sessions acquired and released by the operation in progress
    uploaded_files,    \* ingestion loop: the uploaded documents still to be processed
    pdf_response,      \* process_pdf_and_store: what the model answered for the document
    file_status,       \* ingestion loop: the message shown for each document processed
    callers,           \* concurrent add_triples calls: the groups each has still to write
    last_schema,       \* SpecFresh: the schema the previous generate_cypher call embedded
    call_history       \* SpecOrder: the arguments of the add_triples calls that returned so far

store_vars == <<entities, relationships>>

writer_vars == <<triples, grouped_triples, writes, outcome, pre_entities,
                 pre_relationships, prev_call>>

sanitizer_vars == <<rel, sanitized_rel>>

question_vars == <<llm_output, prompt_schema, cypher_query, gen_outcome, rejected, reads,
                   response_text, entity_string, sg_entities, sg_called, raw_data,
                   nodes, edges>>

ingest_vars == <<uploaded_files, pdf_response, file_status>>

vars == <<store_vars, pc, writer_vars, sanitizer_vars, graph_built, question_vars,
          session_log, ingest_vars, callers, last_schema, call_history>>

-----------------------------------------------------------------------------
(* Bounds of the model.                                                     *)

\* longest argument list of add_triples that is drawn freely
MaxTriples == 2
\* longest relation label drawn from LabelAlphabet
MaxLabelLen == 3
\* most names in the entity list the model returns to search_graph
MaxEntities == 2

\* most Entities linked to one hub in the stores of SpecSearch
MaxStar == 13

\* longest result of the retrieval that is drawn freely in SpecVisualize
MaxRows == 2

\* longest model answer drawn from ResponseAlphabet in SpecParse
MaxTextLen == 5

\* longest argument list of each of the two concurrent add_triples calls
MaxConcurrent == 2

\* most documents in an upload that is drawn freely
MaxFiles == 2

\* most triples handed to add_triples by all the calls of a run of SpecOrder
MaxOrder == 3

-----------------------------------------------------------------------------
(* Python str primitives over sequences of characters.                      *)

LowerLetters ==
    <<"a","b","c","d","e","f","g","h","i","j","k","l","m",
      "n","o","p","q","r","s","t","u","v","w","x","y","z">>

UpperLetters ==
    <<"A","B","C","D","E","F","G","H","I","J","K","L","M",
      "N","O","P","Q","R","S","T","U","V","W","X","Y","Z">>

Range(s) == {s[i] : i \in DOMAIN s}

\* the upper-case letter of each lower-case letter
UpperOf ==
    [c \in Range(LowerLetters) |->
        UpperLetters[CHOOSE i \in DOMAIN LowerLetters : LowerLetters[i] = c]]

\* str.upper() on one character
UpperChar(c) == IF c \in DOMAIN UpperOf THEN UpperOf[c] ELSE c

\* str.upper()
upper(s) == [i \in DOMAIN s |-> UpperChar(s[i])]

\* str.replace(old, new) for one-character old and new
replace(s, old, new) == [i \in DOMAIN s |-> IF s[i] = old THEN new ELSE s[i]]

\* the character class [a-zA-Z0-9_] of the sanitizer's regular expression
WordChars ==
    Range(LowerLetters) \cup Range(UpperLetters)
        \cup {"0","1","2","3","4","5","6","7","8","9"} \cup {"_"}

IsWordChar(c) == c \in WordChars

\* re.sub(r"[^a-zA-Z0-9_]", "", s)
re_sub_nonword(s) == SelectSeq(s, IsWordChar)

\* the test `sub in s` on strings
contains(sub, s) ==
    \E i \in 0..(Len(s) - Len(sub)) : SubSeq(s, i + 1, i + Len(sub)) = sub

\* the lower-case letter of each upper-case letter
LowerOf ==
    [c \in Range(UpperLetters) |->
        LowerLetters[CHOOSE i \in DOMAIN UpperLetters : UpperLetters[i] = c]]

\* toLower() of the store's query language, str.lower()
lower(s) == [i \in DOMAIN s |-> IF s[i] \in DOMAIN LowerOf THEN LowerOf[s[i]] ELSE s[i]]

\* the characters str.strip() removes when it is given no argument
WhitespaceChars == {" ", "\t", "\n", "\r"}

RECURSIVE lstrip_chars(_, _)
lstrip_chars(s, chars) ==
    IF s # <<>> /\ Head(s) \in chars THEN lstrip_chars(Tail(s), chars) ELSE s

RECURSIVE rstrip_chars(_, _)
rstrip_chars(s, chars) ==
    IF s # <<>> /\ s[Len(s)] \in chars
    THEN rstrip_chars(SubSeq(s, 1, Len(s) - 1), chars) ELSE s

\* str.strip(chars): chars is a set of characters, removed from both ends
strip_chars(s, chars) == rstrip_chars(lstrip_chars(s, chars), chars)

\* str.strip()
strip(s) == strip_chars(s, WhitespaceChars)

RECURSIVE split(_, _)
\* str.split(sep)
split(s, sep) ==
    IF ~contains(sep, s) THEN <<s>>
    ELSE LET i == CHOOSE k \in 1..Len(s) :
                    /\ SubSeq(s, k, k + Len(sep) - 1) = sep
                    /\ \A j \in 1..(k - 1) : SubSeq(s, j, j + Len(sep) - 1) # sep
         IN  <<SubSeq(s, 1, i - 1)>> \o split(SubSeq(s, i + Len(sep), Len(s)), sep)

RECURSIVE join(_, _)
\* sep.join(parts)
join(parts, sep) ==
    IF parts = <<>> THEN <<>>
    ELSE IF Len(parts) = 1 THEN parts[1]
    ELSE parts[1] \o sep \o join(Tail(parts), sep)

-----------------------------------------------------------------------------
(* Relation sanitizer: the expression of add_triples that turns a relation  *)
(* label into a relationship type.                                          *)

\* a slip a refactoring could make: upper-casing is lost
sanitize_no_upper(label) == re_sub_nonword(replace(label, " ", "_"))

sanitize(label) == upper(re_sub_nonword(replace(label, " ", "_")))

-----------------------------------------------------------------------------
(* Inputs.                                                                  *)

A == <<"A">>
B == <<"B">>
C == <<"C">>
D == <<"D">>

founded == <<"f","o","u","n","d","e","d">>
Founded == <<"F","o","u","n","d","e","d">>
is_a    == <<"i","s"," ","a">>
dots    == <<".",".",".">>
imposed == <<"I","m","p","o","s","e","d"," ","F","i","n","e"," ","O","n","!">>
is_tab_a == <<"i","s","\t","a">>

\* the triples an extraction can hand to add_triples
TripleUniverse ==
    { <<A, founded, B>>, <<A, Founded, B>>, <<C, founded, D>>,
      <<D, dots, A>>, <<A, is_a, A>>, <<B, imposed, C>> }

SeqsUpTo(S, n) == UNION {[1..k -> S] : k \in 0..n}

\* two triples whose relations sanitize alike, and a third of that type
ExampleTriples == << <<A, founded, B>>, <<A, Founded, B>>, <<C, founded, D>> >>

\* three relation types in one call
ThreeTypes == << <<A, is_a, A>>, <<A, founded, B>>, <<B, imposed, C>> >>

\* the argument lists of add_triples: every list of up to MaxTriples
\* triples, and the two longer ones above
TripleLists == SeqsUpTo(TripleUniverse, MaxTriples) \cup {ExampleTriples, ThreeTypes}

LeafTags == <<"0","1","2","3","4","5","6","7","8","9","b","c","d","e","f","g">>

\* the k-th Entity name around the hub A; each contains the letter of the hub
leaf(k) == <<"A", LeafTags[k]>>

\* documents that link the hub A to n other Entities
StarLists ==
    {[k \in 1..n |-> <<A, <<"l","i","n","k","e","d">>, leaf(k)>>] : n \in 0..MaxStar}

LabelAlphabet == {"a", "Z", "7", "_", " ", "\t", "!", "-"}

LabelUniverse ==
    SeqsUpTo(LabelAlphabet, MaxLabelLen) \cup {founded, Founded, is_a, dots, imposed, is_tab_a}

-----------------------------------------------------------------------------
(* Graph store: the effect of the write statement of add_triples,           *)
(*   UNWIND $pairs as pair                                                  *)
(*   MERGE (e1:Entity {name: pair[0]})                                      *)
(*   MERGE (e2:Entity {name: pair[1]})                                      *)
(*   MERGE (e1)-[:rel_type]->(e2)                                         *)
(* run in one write transaction.                                            *)

\* a slip: CREATE instead of MERGE makes a node on every reference
create_node(es, name) == es (+) SetToBag({name})

\* MERGE (e:Entity {name: name}): match the node, create it when absent
merge_node(es, name) == IF BagIn(name, es) THEN es ELSE es (+) SetToBag({name})

\* a slip: CREATE instead of MERGE makes a relationship on every reference
create_rel(rs, r) == rs (+) SetToBag({r})

\* MERGE (e1)-[:type]->(e2): match the relationship, create it when absent
merge_rel(rs, r) == IF BagIn(r, rs) THEN rs ELSE rs (+) SetToBag({r})

RECURSIVE run_write(_, _, _)
\* the statement applied to the pairs in UNWIND order; st is the store
run_write(st, rel_type, pairs) ==
    IF pairs = <<>> THEN st
    ELSE LET pair == Head(pairs)
             es1  == merge_node(st.entities, pair[1])
             es2  == merge_node(es1, pair[2])
             rs   == merge_rel(st.relationships, <<pair[1], rel_type, pair[2]>>)
         IN  run_write([entities |-> es2, relationships |-> rs], rel_type, Tail(pairs))

\* a slip: the session is closed by hand after the transaction, so that a
\* failing transaction leaves it open
with_session_leak(log, ok) ==
    log \o <<"acquire">> \o (IF ok THEN <<"release">> ELSE <<>>)

\* `with self._driver.session(...) as session:` around one transaction: the
\* session is acquired, the transaction runs (ok) or raises, and the with
\* statement releases the session on both ways out
with_session(log, ok) == log \o <<"acquire">> \o <<"release">>

-----------------------------------------------------------------------------
(* add_triples: grouping by sanitized relation, then one write per group.   *)

\* a slip: the emptiness test on the sanitized relation is dropped
keep_any(s) == TRUE

\* `if sanitized_rel:` keeps the triple
keep_triple(s) == s # <<>>

\* a slip: every triple opens a group of its own
dict_append_always_new(groups, key, pair) ==
    Append(groups, [rel_type |-> key, pairs |-> <<pair>>])

\* a slip: the pair is assigned to the key instead of appended to its list
dict_append_overwrite(groups, key, pair) ==
    IF \E i \in DOMAIN groups : groups[i].rel_type = key
    THEN [i \in DOMAIN groups |->
            IF groups[i].rel_type = key
            THEN [groups[i] EXCEPT !.pairs = <<pair>>]
            ELSE groups[i]]
    ELSE Append(groups, [rel_type |-> key, pairs |-> <<pair>>])

\* grouped_triples[key].append(pair) on a defaultdict(list), which keeps
\* its keys in insertion order
dict_append(groups, key, pair) ==
    IF \E i \in DOMAIN groups : groups[i].rel_type = key
    THEN [i \in DOMAIN groups |->
            IF groups[i].rel_type = key
            THEN [groups[i] EXCEPT !.pairs = Append(@, pair)]
            ELSE groups[i]]
    ELSE Append(groups, [rel_type |-> key, pairs |-> <<pair>>])

RECURSIVE group_triples(_, _)
\* the first loop of add_triples
group_triples(ts, groups) ==
    IF ts = <<>> THEN groups
    ELSE LET t == Head(ts)
             s == sanitize(t[2])
         IN  group_triples(Tail(ts),
                 IF keep_triple(s) THEN dict_append(groups, s, <<t[1], t[3]>>)
                 ELSE groups)

\* a slip: the write is wrapped in try/except and the loop goes on
write_step_swallow(groups, ok) ==
    [pc      |-> IF Tail(groups) = <<>> THEN "add_triples_done" ELSE "add_triples",
     outcome |-> IF Tail(groups) = <<>> THEN "returned" ELSE "none",
     groups  |-> Tail(groups)]

\* control after one iteration of the second loop: the next group, the
\* normal return after the last one, or the exception of _execute_write
\* leaving add_triples (nothing catches it)
write_step(groups, ok) ==
    IF ok
    THEN [pc      |-> IF Tail(groups) = <<>> THEN "add_triples_done" ELSE "add_triples",
          outcome |-> IF Tail(groups) = <<>> THEN "returned" ELSE "none",
          groups  |-> Tail(groups)]
    ELSE [pc |-> "add_triples_done", outcome |-> "raised", groups |-> groups]

\* a slip: clear_database (MATCH (n) DETACH DELETE n) runs before the write
store_after_clear == [entities |-> EmptyBag, relationships |-> EmptyBag]

\* the store the write statement runs on
store == [entities |-> entities, relationships |-> relationships]

\* add_triples(ts) up to the first write
add_triples(ts) ==
    /\ pc = "idle"
    /\ LET groups == group_triples(ts, <<>>)
       IN  /\ triples' = ts
           /\ grouped_triples' = groups
           /\ pc' = IF groups = <<>> THEN "add_triples_done" ELSE "add_triples"
           /\ outcome' = IF groups = <<>> THEN "returned" ELSE "none"
    /\ writes' = <<>>
    /\ pre_entities' = entities
    /\ pre_relationships' = relationships
    /\ session_log' = <<>>
    /\ UNCHANGED <<entities, relationships, prev_call, rel, sanitized_rel>>
    /\ UNCHANGED <<graph_built, question_vars>>
    /\ UNCHANGED <<ingest_vars, callers, last_schema, call_history>>

\* one iteration of the second loop: _execute_write on the next group; the
\* transaction commits (ok) or the store raises and the transaction rolls back
execute_write(ok) ==
    /\ pc = "add_triples"
    /\ grouped_triples # <<>>
    /\ LET g    == Head(grouped_triples)
           st   == IF ok THEN run_write(store, g.rel_type, g.pairs) ELSE store
           next == write_step(grouped_triples, ok)
       IN  /\ entities' = st.entities
           /\ relationships' = st.relationships
           /\ writes' = Append(writes, [rel_type |-> g.rel_type, pairs |-> g.pairs,
                                        committed |-> ok])
           /\ pc' = next.pc
           /\ outcome' = next.outcome
           /\ grouped_triples' = next.groups
    /\ session_log' = with_session(session_log, ok)
    /\ UNCHANGED <<triples, pre_entities, pre_relationships, prev_call, rel, sanitized_rel>>
    /\ UNCHANGED <<graph_built, question_vars>>
    /\ UNCHANGED <<ingest_vars, callers, last_schema, call_history>>

\* control is back at the caller; the frame of add_triples is gone
leave_add_triples ==
    /\ pc = "add_triples_done"
    /\ pc' = "idle"
    /\ triples' = <<>>
    /\ grouped_triples' = <<>>
    /\ writes' = <<>>
    /\ outcome' = "none"
    /\ pre_entities' = entities
    /\ pre_relationships' = relationships
    /\ session_log' = <<>>
    /\ UNCHANGED <<entities, relationships, rel, sanitized_rel>>
    /\ UNCHANGED <<graph_built, question_vars>>
    /\ UNCHANGED <<ingest_vars, callers, last_schema>>

add_triples_exit == leave_add_triples /\ UNCHANGED <<prev_call, call_history>>

\* the same, for a caller that repeats a one-triple call: it remembers the
\* argument of a call that returned
add_triples_exit_remember ==
    /\ leave_add_triples
    /\ prev_call' = IF outcome = "returned" /\ Len(triples) = 1 THEN triples ELSE <<>>
    /\ UNCHANGED call_history

-----------------------------------------------------------------------------
(* What the text-generation service can answer to generate_cypher.          *)

q_read == <<"M","A","T","C","H"," ","(","n",")"," ","R","E","T","U","R","N"," ","n">>
q_DELETE == <<"M","A","T","C","H"," ","(","n",")"," ","D","E","T","A","C","H"," ","D","E","L","E","T","E"," ","n">>

\* the backquote character (a TLA+ string cannot hold it)
BT == "backquote"

\* the fence of a code block
FENCE == <<BT,BT,BT>>


\* the empty answer, reads, and queries that change the graph
QueryBodies ==
    { <<>>, q_read, q_DELETE,
      \* a read with an alias at its end
      <<"M","A","T","C","H"," ","(","n",")"," ","R","E","T","U","R","N"," ",
        "n",".","n","a","m","e"," ","A","S"," ","r">>,
      \* writes, in several letter cases
      <<"C","R","E","A","T","E"," ","(","n",")">>,
      <<"c","r","e","a","t","e"," ","(","n",")">>,
      <<"M","A","T","C","H"," ","(","n",")"," ","S","e","T"," ","n",".","x",
        " ","="," ","1">>,
      <<"m","e","r","g","e"," ","(","n",")">>,
      \* a read that names a write operation in a string
      <<"M","A","T","C","H"," ","(","n",")"," ","W","H","E","R","E"," ","n",
        ".","n","a","m","e"," ","="," ","'","D","e","l","e","t","e","'"," ",
        "R","E","T","U","R","N"," ","n">>,
      \* the removal of a property
      <<"M","A","T","C","H"," ","(","n",")"," ","R","E","M","O","V","E"," ",
        "n",".","n","a","m","e">> }

\* a query, bare or in a fenced block with or without the language tag
LLMOutputs ==
    {pre \o body \o post :
        pre \in {<<>>,
                  FENCE \o <<"c","y","p","h","e","r","\n">>,
                  FENCE \o <<"\n">>,
                  <<"n","o"," ","C","R","E","A","T","E",":","\n">> \o FENCE \o <<"\n">>},
        body \in QueryBodies,
        post \in {<<>>, <<"\n">> \o FENCE}}

\* model.generate(prompt): a text, or an exception of the provider
GenResults ==
    {[raised |-> TRUE, text |-> <<>>]} \cup {[raised |-> FALSE, text |-> t] : t \in LLMOutputs}

-----------------------------------------------------------------------------
(* generate_cypher.                                                         *)

\* the argument of strip("cypher\n"), a set of characters
tag_chars == {"c","y","p","h","e","r","\n"}

\* the write operations the guard looks for
WriteOps ==
    { <<"C","R","E","A","T","E">>, <<"S","E","T">>,
      <<"D","E","L","E","T","E">>, <<"M","E","R","G","E">> }

\* Python's None and a str, as one kind of value
None == [none |-> TRUE, text |-> <<>>]
Str(s) == [none |-> FALSE, text |-> s]

\* cypher_query after the stripping and the fenced-block extraction
extract_query(output) ==
    LET stripped == strip(output)
    IN  IF contains(FENCE, stripped)
        THEN strip(strip_chars(split(stripped, FENCE)[2], tag_chars))
        ELSE stripped

\* any(op in cypher_query.upper() for op in [...])
has_write_op(query) == \E op \in WriteOps : contains(op, upper(query))

\* the try block of generate_cypher: the provider's exception and the
\* ValueError of the guard both end in the except clause, which returns None
generate_cypher_try(gen) ==
    IF gen.raised THEN None
    ELSE IF has_write_op(extract_query(gen.text)) THEN None
    ELSE Str(extract_query(gen.text))

\* a slip: the schema of the previous request is kept and used again
reuse_last_schema == last_schema

\* get_schema on the store: the labels and the relationship types in use
get_schema ==
    [node_labels        |-> IF BagToSet(entities) = {} THEN {} ELSE {"Entity"},
     relationship_types |-> {r[2] : r \in BagToSet(relationships)}]

schema_reads ==
    << [kind |-> "db.labels", arg |-> <<>>],
       [kind |-> "db.relationshipTypes", arg |-> <<>>] >>

-----------------------------------------------------------------------------
(* search_graph and visualize_subgraph.                                     *)

\* names a question can mention
QuestionNames == {<<"a">>, B, <<"X">>}

\* the comma-separated list the model returns in DBUtils.search_graph
EntityStrings ==
    {join(l, <<",", " ">>) : l \in SeqsUpTo(QuestionNames, MaxEntities)}
        \cup {<<" ", ",", " ">>}

RECURSIVE SetToSeq(_)
\* list(a_set): the elements in some order
SetToSeq(S) ==
    IF S = {} THEN <<>>
    ELSE LET x == CHOOSE y \in S : TRUE IN <<x>> \o SetToSeq(S \ {x})

RECURSIVE strip_all(_)
\* [e.strip() for e in parts if e.strip()]
strip_all(parts) ==
    IF parts = <<>> THEN <<>>
    ELSE (IF strip(Head(parts)) # <<>> THEN <<strip(Head(parts))>> ELSE <<>>)
             \o strip_all(Tail(parts))

\* DBUtils.search_graph: the candidate names from the model's answer
parse_entities(s) == strip_all(split(s, <<",">>))

\* LIMIT 25 of the retrieval query
RowLimit == 25

\* the rows of MATCH (n:Entity)-[r]-(m) WHERE toLower(n.name) CONTAINS
\* toLower(entityName) for one relationship r: once for each end that
\* matches (a relationship from a node to itself has one such row)
rows_of(entityName, r) ==
    (IF contains(lower(entityName), lower(r[1]))
     THEN <<[node |-> r[1], relationship |-> r[2], target |-> r[3]]>> ELSE <<>>)
    \o
    (IF r[1] # r[3] /\ contains(lower(entityName), lower(r[3]))
     THEN <<[node |-> r[3], relationship |-> r[2], target |-> r[1]]>> ELSE <<>>)

RECURSIVE match_rows(_, _)
match_rows(entityName, rs) ==
    IF rs = <<>> THEN <<>>
    ELSE rows_of(entityName, Head(rs)) \o match_rows(entityName, Tail(rs))

RECURSIVE unwind_rows(_, _)
\* UNWIND $entities as entityName MATCH ... RETURN ...
unwind_rows(ents, rs) ==
    IF ents = <<>> THEN <<>>
    ELSE match_rows(Head(ents), rs) \o unwind_rows(Tail(ents), rs)

\* a slip: the retrieval query loses its LIMIT clause
query_results_unlimited(ents) ==
    {unwind_rows(ents, SetToSeq(BagToSet(relationships)))}

\* the results the retrieval query can have: all rows, or RowLimit of them
\* when there are more (the store picks which; here a run of consecutive rows)
query_results(ents) ==
    LET all == unwind_rows(ents, SetToSeq(BagToSet(relationships)))
    IN  IF Len(all) <= RowLimit THEN {all}
        ELSE {SubSeq(all, k + 1, k + RowLimit) : k \in 0..(Len(all) - RowLimit)}

\* a slip: the empty candidate list is not short-circuited
never_empty(ents) == FALSE

\* `if not entities:`
no_entities(ents) == ents = <<>>

\* f"{src}-{rel}-{tgt}"
edge_id(src, r, tgt) == src \o <<"-">> \o r \o <<"-">> \o tgt

\* a slip: the test for missing names is lost
any_row(row) == TRUE

\* `if not src or not tgt: continue` lets the row through
well_formed(row) == row.node # <<>> /\ row.target # <<>>

\* the positions of seq whose value does not occur before them: where a loop
\* with an `x not in seen` test and `seen.add(x)` takes its branch
first_seen(seq) == {i \in DOMAIN seq : \A j \in 1..(i - 1) : seq[j] # seq[i]}

\* the elements of seq at the positions idx, in their order
pick(seq, idx) ==
    [k \in 1..Cardinality(idx) |->
        seq[CHOOSE i \in idx : Cardinality({j \in idx : j <= i}) = k]]

\* `for n in [src, tgt]` over the rows, in loop order
names_of(rows) ==
    [i \in 1..(2 * Len(rows)) |->
        IF i % 2 = 1 THEN rows[(i + 1) \div 2].node ELSE rows[i \div 2].target]

edge_ids_of(rows) ==
    [i \in DOMAIN rows |-> edge_id(rows[i].node, rows[i].relationship, rows[i].target)]

\* edge_data of each row
edges_of(rows) ==
    [i \in DOMAIN rows |->
        [id |-> edge_ids_of(rows)[i], source |-> rows[i].node,
         target |-> rows[i].target, label |-> rows[i].relationship]]

\* the loop of visualize_subgraph over raw_data: a node for each name that is
\* not in node_ids yet, an edge for each edge_id that is not in edge_ids yet
build_model(rows) ==
    LET kept == SelectSeq(rows, well_formed)
    IN  [nodes |-> pick(names_of(kept), first_seen(names_of(kept))),
         edges |-> pick(edges_of(kept), first_seen(edge_ids_of(kept)))]

\* result rows as the driver can hand them to visualize_subgraph
A_R_A == <<"A","-","R","-","A">>
R == <<"R">>
FOUNDED == <<"F","O","U","N","D","E","D">>
LOCATED_IN == <<"L","O","C","A","T","E","D","_","I","N">>

\* the rows; <<>> stands for a missing name (None or "")
RowUniverse ==
    {[node |-> n, relationship |-> t, target |-> m] :
        n \in {A, B, A_R_A, <<>>}, t \in {R, FOUNDED}, m \in {A, B, A_R_A, <<>>}}

\* a duplicated row and a third one
ExampleRows ==
    << [node |-> A, relationship |-> FOUNDED, target |-> B],
       [node |-> A, relationship |-> FOUNDED, target |-> B],
       [node |-> B, relationship |-> LOCATED_IN, target |-> C] >>

RowLists == SeqsUpTo(RowUniverse, MaxRows) \cup {ExampleRows}

-----------------------------------------------------------------------------
(* The session and the question flow (app.py, render_chat_interface).       *)

\* check_if_graph_exists: MATCH (n) RETURN n LIMIT 1 has a row
check_if_graph_exists == BagToSet(entities) # {}

\* a new session: "graph_built" is not in st.session_state yet
initialize_session_state ==
    /\ pc = "idle"
    /\ graph_built' = check_if_graph_exists
    /\ session_log' = with_session(<<>>, TRUE)
    /\ UNCHANGED <<store_vars, pc, writer_vars, sanitizer_vars, question_vars>>
    /\ UNCHANGED <<ingest_vars, callers, last_schema, call_history>>

\* no document is being ingested
no_ingestion ==
    /\ uploaded_files = <<>>
    /\ pdf_response = [raised |-> FALSE, text |-> <<>>]
    /\ file_status = <<>>

\* no question is being answered
clear_question ==
    /\ llm_output = [raised |-> FALSE, text |-> <<>>]
    /\ prompt_schema = [node_labels |-> {}, relationship_types |-> {}]
    /\ cypher_query = None
    /\ gen_outcome = "none"
    /\ rejected = FALSE
    /\ reads = <<>>
    /\ response_text = ""
    /\ entity_string = <<>>
    /\ sg_entities = <<>>
    /\ sg_called = FALSE
    /\ raw_data = <<>>
    /\ nodes = <<>>
    /\ edges = <<>>

\* a question arrives: without a graph it is answered at once
ask_question ==
    /\ pc = "idle"
    /\ IF ~graph_built
       THEN /\ response_text' = "Graph is empty. Please upload and process PDFs first."
            /\ pc' = "answered"
       ELSE /\ response_text' = ""
            /\ pc' = "generate_cypher"
    /\ UNCHANGED <<llm_output, prompt_schema, cypher_query, gen_outcome, rejected, reads,
                   entity_string, sg_entities, sg_called, raw_data, nodes, edges>>
    /\ session_log' = <<>>
    /\ UNCHANGED <<store_vars, writer_vars, sanitizer_vars, graph_built>>
    /\ UNCHANGED <<ingest_vars, callers, last_schema, call_history>>

\* a slip: `if not cypher_query` is lost and the value is executed as it is
never_falsy(value) == FALSE

\* `not cypher_query`: None and "" are false
falsy(value) == value.none \/ value.text = <<>>

\* generate_cypher(user_input, model): get_schema (outside the try block, so
\* a failing schema read leaves generate_cypher as an exception, which the
\* flow's except clause turns into the answer), then the try block
generate_cypher(schema_ok, gen) ==
    /\ pc = "generate_cypher"
    /\ IF schema_ok
       THEN /\ reads' = reads \o schema_reads
            /\ prompt_schema' = get_schema
            /\ llm_output' = gen
            /\ cypher_query' = generate_cypher_try(gen)
            /\ rejected' = (~gen.raised /\ has_write_op(extract_query(gen.text)))
            /\ gen_outcome' = "returned"
            /\ pc' = "run_query"
            /\ session_log' = with_session(with_session(session_log, TRUE), TRUE)
            /\ UNCHANGED response_text
       ELSE /\ reads' = Append(reads, schema_reads[1])
            /\ session_log' = with_session(session_log, FALSE)
            /\ gen_outcome' = "raised"
            /\ response_text' = "Error"
            /\ pc' = "answered"
            /\ UNCHANGED <<prompt_schema, llm_output, cypher_query, rejected>>
    /\ UNCHANGED <<entity_string, sg_entities, sg_called, raw_data, nodes, edges>>
    /\ UNCHANGED <<store_vars, writer_vars, sanitizer_vars, graph_built>>
    /\ UNCHANGED <<ingest_vars, callers, last_schema, call_history>>

\* steps 2 and 3 of the flow: the generated query is run by execute_read (a
\* read transaction: the store is not changed) and the answer is synthesized
run_query(result) ==
    /\ pc = "run_query"
    /\ IF falsy(cypher_query)
       THEN /\ response_text' = "Could not generate a valid query."
            /\ pc' = "answered"
            /\ UNCHANGED <<reads, session_log>>
       ELSE /\ reads' = Append(reads, [kind |-> "generated", arg |-> cypher_query.text])
            /\ session_log' = with_session(session_log, result # "read_raises")
            /\ response_text' =
                  CASE result = "read_raises" -> "Error"
                    [] result = "no_rows" -> "No matching data found."
                    [] result = "answer_raises" -> "Error"
                    [] OTHER -> "answer"
            /\ pc' = IF result = "rows" THEN "visualize_subgraph" ELSE "answered"
    /\ UNCHANGED <<llm_output, prompt_schema, cypher_query, gen_outcome, rejected,
                   entity_string, sg_entities, sg_called, raw_data, nodes, edges>>
    /\ UNCHANGED <<store_vars, writer_vars, sanitizer_vars, graph_built>>
    /\ UNCHANGED <<ingest_vars, callers, last_schema, call_history>>

\* search_graph from its candidate names on, and the rest of
\* visualize_subgraph; a failing read ends in the flow's except clause
visualize_with(ents, read_ok) ==
    /\ sg_entities' = ents
    /\ sg_called' = TRUE
    /\ IF no_entities(ents)
       THEN /\ raw_data' = <<>>
            /\ UNCHANGED <<reads, response_text, session_log>>
       ELSE /\ reads' = Append(reads, [kind |-> "search", arg |-> ents])
            /\ session_log' = with_session(session_log, read_ok)
            /\ IF read_ok
               THEN /\ raw_data' \in query_results(ents)
                    /\ UNCHANGED response_text
               ELSE /\ raw_data' = <<>>
                    /\ response_text' = "Error"
    /\ nodes' = build_model(raw_data').nodes
    /\ edges' = build_model(raw_data').edges
    /\ pc' = "answered"
    /\ UNCHANGED <<llm_output, prompt_schema, cypher_query, gen_outcome, rejected>>
    /\ UNCHANGED <<store_vars, writer_vars, sanitizer_vars, graph_built>>
    /\ UNCHANGED <<ingest_vars, callers, last_schema, call_history>>

\* visualize_subgraph with graph_db.search_graph: the candidate names are the
\* set of entity and proper-noun texts the tagger finds in the question
visualize_subgraph(found, read_ok) ==
    /\ pc = "visualize_subgraph"
    /\ entity_string' = <<>>
    /\ visualize_with(SetToSeq(found), read_ok)

\* visualize_subgraph with DBUtils.search_graph: the candidate names are
\* parsed from the model's comma-separated answer
visualize_subgraph_DBUtils(answer, read_ok) ==
    /\ pc = "visualize_subgraph"
    /\ entity_string' = answer
    /\ visualize_with(parse_entities(answer), read_ok)

\* the answer is appended to the chat; the flow's locals are gone
leave_question ==
    /\ pc = "answered"
    /\ pc' = "idle"
    /\ llm_output' = [raised |-> FALSE, text |-> <<>>]
    /\ prompt_schema' = [node_labels |-> {}, relationship_types |-> {}]
    /\ cypher_query' = None
    /\ gen_outcome' = "none"
    /\ rejected' = FALSE
    /\ reads' = <<>>
    /\ response_text' = ""
    /\ entity_string' = <<>>
    /\ sg_entities' = <<>>
    /\ sg_called' = FALSE
    /\ raw_data' = <<>>
    /\ nodes' = <<>>
    /\ edges' = <<>>
    /\ session_log' = <<>>
    /\ UNCHANGED <<store_vars, writer_vars, sanitizer_vars, graph_built>>
    /\ UNCHANGED <<ingest_vars, callers, call_history>>

question_exit == leave_question /\ UNCHANGED last_schema

\* the same, for an observer of two requests in a row: it remembers the
\* schema that the request embedded in its prompt
question_exit_remember ==
    /\ leave_question
    /\ last_schema' = IF gen_outcome = "returned" THEN prompt_schema ELSE last_schema

-----------------------------------------------------------------------------
(* process_pdf_and_store: the triple parser.                                *)

\* model answers to the ingestion prompt
john_doe_line ==
    <<"'","J","o","h","n"," ","D","o","e","'","|","I","S","_","A","|","D","i",
      "r","e","c","t","o","r">>

\* a quoted line, a blank line, lines without three fields, a line with
\* blanks around the pipes, a line with an empty field, a line with blanks
\* inside the quotes
mixed_lines ==
    <<"\n","'","J","o","h","n"," ","D","o","e","'","|","I","S","_","A","|","D",
      "i","r","e","c","t","o","r","\n","\n","n","o"," ","t","r","i","p","l",
      "e"," ","h","e","r","e","\n","A","|","B","|","C","|","D","\n"," ",
      "\"","C","\""," ","|"," ","f","o","u","n","d","e","d"," ","|"," ","'",
      "D","'"," ","\n","A","|","|","B","\n","'"," ","A"," ","'","|","R","|",
      "B","\n">>

ResponseAlphabet == {"A", "|", "'", " ", "\n"}

ResponseTexts ==
    SeqsUpTo(ResponseAlphabet, MaxTextLen) \cup {john_doe_line, mixed_lines}

\* the argument of strip("'\""), a set of characters
quote_chars == {"'", "\""}

\* parts[k].strip().strip("'\"")
clean_field(part) == strip_chars(strip(part), quote_chars)

\* a slip: lines with more than three fields are let through
at_least_three(parts) == Len(parts) >= 3

\* `if len(parts) == 3:`
three_parts(parts) == Len(parts) = 3

\* the body of the loop over the lines: the triple of the line, if it has one
parse_line(line) ==
    LET parts == split(line, <<"|">>)
    IN  IF three_parts(parts)
        THEN LET e1 == clean_field(parts[1])
                 r  == clean_field(parts[2])
                 e2 == clean_field(parts[3])
             IN  IF e1 # <<>> /\ r # <<>> /\ e2 # <<>> THEN << <<e1, r, e2>> >> ELSE <<>>
        ELSE <<>>

RECURSIVE parse_lines(_)
parse_lines(lines) ==
    IF lines = <<>> THEN <<>> ELSE parse_line(Head(lines)) \o parse_lines(Tail(lines))

\* triples, from response.text
parse_response(text) == parse_lines(split(strip(text), <<"\n">>))

\* no add_triples call is in progress
no_call ==
    /\ triples = <<>>
    /\ grouped_triples = <<>>
    /\ writes = <<>>
    /\ outcome = "none"
    /\ pre_entities = EmptyBag
    /\ pre_relationships = EmptyBag
    /\ prev_call = <<>>

\* the parsing loop of process_pdf_and_store on the model's answer
parse_triples ==
    /\ pc = "parse"
    /\ triples' = parse_response(pdf_response.text)
    /\ pc' = "parsed"
    /\ UNCHANGED <<store_vars, grouped_triples, writes, outcome, pre_entities,
                   pre_relationships, prev_call, sanitizer_vars, graph_built>>
    /\ UNCHANGED <<question_vars, session_log, ingest_vars, callers, last_schema,
                   call_history>>

InitParse ==
    /\ entities = EmptyBag
    /\ relationships = EmptyBag
    /\ pc = "parse"
    /\ no_call
    /\ rel = <<>>
    /\ sanitized_rel = <<>>
    /\ graph_built = FALSE
    /\ clear_question
    /\ session_log = <<>>
    /\ uploaded_files = <<>>
    /\ pdf_response \in {[raised |-> FALSE, text |-> t] : t \in ResponseTexts}
    /\ file_status = <<>>
    /\ callers = <<>>
    /\ last_schema = [node_labels |-> {}, relationship_types |-> {}]
    /\ call_history = [calls |-> <<>>, failed |-> FALSE]

NextParse == parse_triples

SpecParse == InitParse /\ [][NextParse]_vars

-----------------------------------------------------------------------------
(* The sanitizer on its own.                                                *)

apply_sanitize ==
    /\ pc = "sanitize"
    /\ sanitized_rel' = sanitize(rel)
    /\ pc' = "sanitized"
    /\ UNCHANGED <<store_vars, writer_vars, rel, graph_built, question_vars>>
    /\ UNCHANGED <<session_log, ingest_vars, callers, last_schema, call_history>>

-----------------------------------------------------------------------------
(* Specifications.                                                          *)

Init ==
    /\ entities = EmptyBag
    /\ relationships = EmptyBag
    /\ pc = "idle"
    /\ triples = <<>>
    /\ grouped_triples = <<>>
    /\ writes = <<>>
    /\ outcome = "none"
    /\ pre_entities = EmptyBag
    /\ pre_relationships = EmptyBag
    /\ prev_call = <<>>
    /\ rel = <<>>
    /\ sanitized_rel = <<>>
    /\ graph_built = FALSE
    /\ clear_question
    /\ session_log = <<>>
    /\ no_ingestion
    /\ callers = <<>>
    /\ last_schema = [node_labels |-> {}, relationship_types |-> {}]
    /\ call_history = [calls |-> <<>>, failed |-> FALSE]

Next ==
    \/ \E ts \in TripleLists : add_triples(ts)
    \/ \E ok \in BOOLEAN : execute_write(ok)
    \/ add_triples_exit
    \/ initialize_session_state
    \/ ask_question
    \/ \E schema_ok \in BOOLEAN, gen \in GenResults : generate_cypher(schema_ok, gen)
    \/ \E result \in {"read_raises", "no_rows", "answer_raises", "rows"} : run_query(result)
    \/ \E found \in SUBSET QuestionNames, read_ok \in BOOLEAN :
          visualize_subgraph(found, read_ok)
    \/ \E answer \in EntityStrings, read_ok \in BOOLEAN :
          visualize_subgraph_DBUtils(answer, read_ok)
    \/ question_exit

Spec == Init /\ [][Next]_vars

InitSanitize ==
    /\ entities = EmptyBag
    /\ relationships = EmptyBag
    /\ pc = "sanitize"
    /\ triples = <<>>
    /\ grouped_triples = <<>>
    /\ writes = <<>>
    /\ outcome = "none"
    /\ pre_entities = EmptyBag
    /\ pre_relationships = EmptyBag
    /\ prev_call = <<>>
    /\ rel \in LabelUniverse
    /\ sanitized_rel = <<>>
    /\ graph_built = FALSE
    /\ clear_question
    /\ session_log = <<>>
    /\ no_ingestion
    /\ callers = <<>>
    /\ last_schema = [node_labels |-> {}, relationship_types |-> {}]
    /\ call_history = [calls |-> <<>>, failed |-> FALSE]

NextSanitize == apply_sanitize

SpecSanitize == InitSanitize /\ [][NextSanitize]_vars

\* repeated one-triple calls of add_triples
NextTwice ==
    \/ \E t \in TripleUniverse : add_triples(<<t>>)
    \/ \E ok \in BOOLEAN : execute_write(ok)
    \/ add_triples_exit_remember

SpecTwice == Init /\ [][NextTwice]_vars

\* questions over stores in which one name matches many relationships
SearchGenResults ==
    {[raised |-> TRUE, text |-> <<>>], [raised |-> FALSE, text |-> q_read]}

NextSearch ==
    \/ \E ts \in StarLists : add_triples(ts)
    \/ \E ok \in BOOLEAN : execute_write(ok)
    \/ add_triples_exit
    \/ initialize_session_state
    \/ ask_question
    \/ \E schema_ok \in BOOLEAN, gen \in SearchGenResults : generate_cypher(schema_ok, gen)
    \/ \E result \in {"read_raises", "no_rows", "answer_raises", "rows"} : run_query(result)
    \/ \E found \in SUBSET QuestionNames, read_ok \in BOOLEAN :
          visualize_subgraph(found, read_ok)
    \/ \E answer \in EntityStrings, read_ok \in BOOLEAN :
          visualize_subgraph_DBUtils(answer, read_ok)
    \/ question_exit

SpecSearch == Init /\ [][NextSearch]_vars

\* visualize_subgraph from the rows search_graph returned on
build_nodes_and_edges ==
    /\ pc = "build_model"
    /\ nodes' = build_model(raw_data).nodes
    /\ edges' = build_model(raw_data).edges
    /\ pc' = "built"
    /\ UNCHANGED <<store_vars, writer_vars, sanitizer_vars, graph_built>>
    /\ UNCHANGED <<llm_output, prompt_schema, cypher_query, gen_outcome, rejected, reads,
                   response_text, entity_string, sg_entities, sg_called, raw_data>>
    /\ UNCHANGED <<session_log, ingest_vars, callers, last_schema, call_history>>

InitVisualize ==
    /\ entities = EmptyBag
    /\ relationships = EmptyBag
    /\ pc = "build_model"
    /\ triples = <<>>
    /\ grouped_triples = <<>>
    /\ writes = <<>>
    /\ outcome = "none"
    /\ pre_entities = EmptyBag
    /\ pre_relationships = EmptyBag
    /\ prev_call = <<>>
    /\ rel = <<>>
    /\ sanitized_rel = <<>>
    /\ graph_built = TRUE
    /\ llm_output = [raised |-> FALSE, text |-> <<>>]
    /\ prompt_schema = [node_labels |-> {}, relationship_types |-> {}]
    /\ cypher_query = None
    /\ gen_outcome = "none"
    /\ rejected = FALSE
    /\ reads = <<>>
    /\ response_text = ""
    /\ entity_string = <<>>
    /\ sg_entities = <<>>
    /\ sg_called = TRUE
    /\ raw_data \in RowLists
    /\ nodes = <<>>
    /\ edges = <<>>
    /\ session_log = <<>>
    /\ no_ingestion
    /\ callers = <<>>
    /\ last_schema = [node_labels |-> {}, relationship_types |-> {}]
    /\ call_history = [calls |-> <<>>, failed |-> FALSE]

NextVisualize == build_nodes_and_edges

SpecVisualize == InitVisualize /\ [][NextVisualize]_vars

\* two requests in a row, with ingestion between them
NextFresh ==
    \/ \E t \in TripleUniverse : add_triples(<<t>>)
    \/ \E ok \in BOOLEAN : execute_write(ok)
    \/ add_triples_exit
    \/ initialize_session_state
    \/ ask_question
    \/ \E schema_ok \in BOOLEAN, gen \in SearchGenResults : generate_cypher(schema_ok, gen)
    \/ \E result \in {"read_raises", "no_rows", "answer_raises", "rows"} : run_query(result)
    \/ \E found \in SUBSET QuestionNames, read_ok \in BOOLEAN :
          visualize_subgraph(found, read_ok)
    \/ question_exit_remember

SpecFresh == Init /\ [][NextFresh]_vars

\* triples of three relationship types, two of one type, and one whose
\* relation label sanitizes to the empty string
OrderTriples ==
    { <<A, founded, B>>, <<C, founded, D>>, <<A, is_a, A>>, <<B, imposed, C>>,
      <<D, dots, A>> }

RECURSIVE concat(_)
\* the lists of a sequence of lists, one after the other
concat(lists) == IF lists = <<>> THEN <<>> ELSE Head(lists) \o concat(Tail(lists))

\* the triples of the calls that returned so far
handed_over == concat(call_history.calls)

\* one more add_triples call of a caller that hands over its triples in
\* some order, in one call or in several, and stops when a call raised
add_more_triples(ts) ==
    /\ ts # <<>>
    /\ ~call_history.failed
    /\ Len(handed_over) + Len(ts) <= MaxOrder
    /\ add_triples(ts)

\* control is back at that caller: it notes the triples of a call that
\* returned, and whether a call raised
add_triples_exit_record ==
    /\ leave_add_triples
    /\ call_history' =
          [calls  |-> IF outcome = "returned" THEN Append(call_history.calls, triples)
                      ELSE call_history.calls,
           failed |-> call_history.failed \/ outcome = "raised"]
    /\ UNCHANGED prev_call

NextOrder ==
    \/ \E ts \in SeqsUpTo(OrderTriples, MaxOrder) : add_more_triples(ts)
    \/ \E ok \in BOOLEAN : execute_write(ok)
    \/ add_triples_exit_record

SpecOrder == Init /\ [][NextOrder]_vars

-----------------------------------------------------------------------------
(* Two add_triples calls at once, on one store.                             *)

\* triples with Entity names in common, two of them of one relationship type
ConcurrentTriples == {<<A, founded, B>>, <<A, Founded, B>>, <<B, imposed, C>>}

ConcurrentLists == SeqsUpTo(ConcurrentTriples, MaxConcurrent)

\* a slip of the store: the statement runs on the state the store had when
\* the calls started, and its result replaces the state of the store
upsert_on_snapshot(st, rel_type, pairs) ==
    run_write([entities |-> pre_entities, relationships |-> pre_relationships],
              rel_type, pairs)

\* the write transaction of one group, applied at once to the state the
\* store has when it commits
upsert(st, rel_type, pairs) == run_write(st, rel_type, pairs)

\* one call, as add_triples(ts) leaves its first loop
new_call(ts) ==
    [triples |-> ts,
     groups  |-> group_triples(ts, <<>>),
     outcome |-> IF group_triples(ts, <<>>) = <<>> THEN "returned" ELSE "none",
     written |-> 0]

\* a call that has written a group and has groups left to write
mid_way(call) == call.outcome = "none" /\ call.written > 0

\* two callers enter add_triples, each with its own argument
concurrent_add_triples(ts1, ts2) ==
    /\ pc = "idle"
    /\ callers = <<>>
    /\ callers' = [calls |-> <<new_call(ts1), new_call(ts2)>>, overlapped |-> FALSE]
    /\ pc' = "concurrent"
    /\ pre_entities' = entities
    /\ pre_relationships' = relationships
    /\ UNCHANGED <<store_vars, triples, grouped_triples, writes, outcome, prev_call>>
    /\ UNCHANGED <<sanitizer_vars, graph_built, question_vars, session_log, ingest_vars,
                   last_schema, call_history>>

\* caller c runs one iteration of its second loop
concurrent_write(c, ok) ==
    /\ pc = "concurrent"
    /\ callers.calls[c].outcome = "none"
    /\ LET call == callers.calls[c]
           g    == Head(call.groups)
           st   == IF ok THEN upsert(store, g.rel_type, g.pairs) ELSE store
           next == write_step(call.groups, ok)
       IN  /\ entities' = st.entities
           /\ relationships' = st.relationships
           /\ callers' =
                [calls |-> [callers.calls EXCEPT
                              ![c] = [call EXCEPT !.groups = next.groups,
                                                  !.outcome = next.outcome,
                                                  !.written = @ + 1]],
                 overlapped |-> callers.overlapped \/ mid_way(callers.calls[3 - c])]
    /\ UNCHANGED <<pc, writer_vars, sanitizer_vars, graph_built, question_vars>>
    /\ UNCHANGED <<session_log, ingest_vars, last_schema, call_history>>

NextConcurrent ==
    \/ \E ts1, ts2 \in ConcurrentLists : concurrent_add_triples(ts1, ts2)
    \/ \E c \in {1, 2}, ok \in BOOLEAN : concurrent_write(c, ok)

SpecConcurrent == Init /\ [][NextConcurrent]_vars

-----------------------------------------------------------------------------
(* The ingestion loop ("Process and Add to Graph") and                      *)
(* process_pdf_and_store.                                                   *)

\* what the model answers for a document
answer_founded == <<"A","|","f","o","u","n","d","e","d","|","B">>
answer_two_types ==
    <<"'","B","'"," ","|"," ","I","m","p","o","s","e","d"," ","F","i","n","e",
      " ","O","n","!"," ","|"," ","'","C","'","\n","A","|","F","o","u","n",
      "d","e","d","|","B","\n">>
answer_is_a == <<"A","|","i","s"," ","a","|","A">>
answer_no_triple == <<"N","o"," ","r","e","l","a","t","i","o","n","s","h","i","p","s"," ","f",
      "o","u","n","d",".">>

\* an uploaded document, by what happens when it is processed: the upload to
\* the File API fails (pdf_processor.py only), generate_content fails, or the
\* model answers
doc_upload_fails == [kind |-> "upload_raises", text |-> <<>>]
doc_generate_fails == [kind |-> "generate_raises", text |-> <<>>]
doc(answer) == [kind |-> "answered", text |-> answer]

Documents ==
    {doc_upload_fails, doc_generate_fails, doc(answer_founded), doc(answer_two_types),
     doc(answer_no_triple)}

\* a document between two others
ExampleFiles == <<doc(answer_founded), doc(answer_two_types), doc(answer_is_a)>>

\* the uploads of one press of the button
FileLists ==
    UNION {[1..k -> Documents] : k \in 1..MaxFiles} \cup {ExampleFiles}

\* a slip: the try/except around process_pdf_and_store is lost, and the
\* exception of one document ends the loop
abort_on_error == "aborted"

\* `except Exception as e: st.error(...)`, then the loop goes on
after_error == "ingest"

\* the document the loop is at
current_file == uploaded_files[Len(file_status) + 1]

\* the button is pressed with a non-empty list of uploads
process_and_add(files) ==
    /\ pc = "idle"
    /\ uploaded_files' = files
    /\ file_status' = <<>>
    /\ pdf_response' = [raised |-> FALSE, text |-> <<>>]
    /\ pc' = "ingest"
    /\ UNCHANGED <<store_vars, writer_vars, sanitizer_vars, graph_built, question_vars>>
    /\ UNCHANGED <<session_log, callers, last_schema, call_history>>

\* one iteration of the loop, up to the first write of add_triples: the
\* upload or generate_content raises (error), or the answer is parsed and
\* add_triples is called unless no triple was found (success)
process_pdf_and_store ==
    /\ pc = "ingest"
    /\ Len(file_status) < Len(uploaded_files)
    /\ pre_entities' = entities
    /\ pre_relationships' = relationships
    /\ writes' = <<>>
    /\ session_log' = <<>>
    /\ IF current_file.kind # "answered"
       THEN /\ pdf_response' = [raised |-> TRUE, text |-> <<>>]
            /\ file_status' = Append(file_status, "error")
            /\ pc' = after_error
            /\ triples' = <<>>
            /\ grouped_triples' = <<>>
            /\ outcome' = "none"
            /\ UNCHANGED graph_built
       ELSE LET ts     == parse_response(current_file.text)
                groups == group_triples(ts, <<>>)
            IN  /\ pdf_response' = [raised |-> FALSE, text |-> current_file.text]
                /\ triples' = ts
                /\ grouped_triples' = groups
                /\ IF groups = <<>>
                   THEN /\ file_status' = Append(file_status, "success")
                        /\ graph_built' = TRUE
                        /\ outcome' = "returned"
                        /\ pc' = "ingest"
                   ELSE /\ outcome' = "none"
                        /\ pc' = "ingest_write"
                        /\ UNCHANGED <<file_status, graph_built>>
    /\ UNCHANGED <<store_vars, prev_call, sanitizer_vars, question_vars, uploaded_files>>
    /\ UNCHANGED <<callers, last_schema, call_history>>

\* one iteration of the second loop of add_triples, called for the document;
\* after the last group the document is a success, and a failing write is
\* the document's error
ingest_write(ok) ==
    /\ pc = "ingest_write"
    /\ LET g    == Head(grouped_triples)
           st   == IF ok THEN run_write(store, g.rel_type, g.pairs) ELSE store
           next == write_step(grouped_triples, ok)
       IN  /\ entities' = st.entities
           /\ relationships' = st.relationships
           /\ writes' = Append(writes, [rel_type |-> g.rel_type, pairs |-> g.pairs,
                                        committed |-> ok])
           /\ outcome' = next.outcome
           /\ grouped_triples' = next.groups
           /\ pc' = CASE next.outcome = "none" -> "ingest_write"
                      [] next.outcome = "returned" -> "ingest"
                      [] OTHER -> after_error
           /\ file_status' =
                 CASE next.outcome = "none" -> file_status
                   [] next.outcome = "returned" -> Append(file_status, "success")
                   [] OTHER -> Append(file_status, "error")
           /\ graph_built' = IF next.outcome = "returned" THEN TRUE ELSE graph_built
    /\ session_log' = with_session(session_log, ok)
    /\ UNCHANGED <<triples, pre_entities, pre_relationships, prev_call, sanitizer_vars>>
    /\ UNCHANGED <<question_vars, uploaded_files, pdf_response, callers, last_schema,
                   call_history>>

\* the loop is over: "All files processed."
all_files_processed ==
    /\ pc = "ingest"
    /\ Len(file_status) = Len(uploaded_files)
    /\ pc' = "all_processed"
    /\ UNCHANGED <<store_vars, writer_vars, sanitizer_vars, graph_built, question_vars>>
    /\ UNCHANGED <<session_log, ingest_vars, callers, last_schema, call_history>>

\* the script run of the button is over
ingest_exit ==
    /\ pc = "all_processed"
    /\ pc' = "idle"
    /\ uploaded_files' = <<>>
    /\ file_status' = <<>>
    /\ pdf_response' = [raised |-> FALSE, text |-> <<>>]
    /\ triples' = <<>>
    /\ grouped_triples' = <<>>
    /\ writes' = <<>>
    /\ outcome' = "none"
    /\ pre_entities' = entities
    /\ pre_relationships' = relationships
    /\ session_log' = <<>>
    /\ UNCHANGED <<store_vars, prev_call, sanitizer_vars, graph_built, question_vars>>
    /\ UNCHANGED <<callers, last_schema, call_history>>

NextIngest ==
    \/ \E files \in FileLists : process_and_add(files)
    \/ process_pdf_and_store
    \/ \E ok \in BOOLEAN : ingest_write(ok)
    \/ all_files_processed
    \/ ingest_exit

SpecIngest == Init /\ [][NextIngest]_vars

-----------------------------------------------------------------------------
(* Properties of the triple store writer.                                   *)

Returned == pc = "add_triples_done" /\ outcome = "returned"
Raised   == pc = "add_triples_done" /\ outcome = "raised"

\* the triples of the call whose relation does not sanitize to ""
KeptTriples == {t \in Range(triples) : sanitize(t[2]) # <<>>}

\* C1: after any sequence of add_triples calls from the empty store there is
\* at most one Entity node per name and at most one relationship of a type
\* between an ordered pair of Entities.
C1_Unique ==
    /\ \A n \in BagToSet(entities) : CopiesIn(n, entities) <= 1
    /\ \A r \in BagToSet(relationships) : CopiesIn(r, relationships) <= 1

\* a call that returned, naming twice an Entity that was stored before it
C1_Witness ==
    /\ Returned
    /\ BagIn(A, pre_entities)
    /\ Len(triples) >= 2
    /\ triples[1] = <<A, founded, B>> /\ triples[2] = <<A, Founded, B>>
    /\ CopiesIn(A, entities) = 1
    /\ CopiesIn(<<A, sanitize(founded), B>>, relationships) = 1

\* the second of two equal one-triple calls has returned
SecondCallReturned == Returned /\ Len(triples) = 1 /\ prev_call = triples

ExactlyOnceStored(t) ==
    /\ CopiesIn(t[1], entities) = 1
    /\ CopiesIn(t[3], entities) = 1
    /\ CopiesIn(<<t[1], sanitize(t[2]), t[3]>>, relationships) = 1

StoreUnchangedByCall ==
    entities = pre_entities /\ relationships = pre_relationships

\* C4 as stated: for every triple T, after add_triples([T]) twice the store
\* holds exactly one Entity per name of T and exactly one edge of T's
\* sanitized type from subject to object, and the second call changed nothing.
C4_AsStated ==
    SecondCallReturned => ExactlyOnceStored(triples[1]) /\ StoreUnchangedByCall

\* C4 amended: the same for every triple T whose relation label sanitizes to
\* a non-empty string; for the other triples both calls change nothing.
C4_Idempotent ==
    SecondCallReturned =>
        /\ StoreUnchangedByCall
        /\ sanitize(triples[1][2]) # <<>> => ExactlyOnceStored(triples[1])
        /\ sanitize(triples[1][2]) = <<>> => writes = <<>>

\* the self-referring triple stored by two calls: one Entity, one edge
C4_Witness ==
    /\ SecondCallReturned
    /\ triples[1] = <<A, is_a, A>>
    /\ Len(writes) = 1 /\ writes[1].committed
    /\ CopiesIn(A, entities) = 1

\* C7: when the write of a relation group fails, the groups written before
\* it stay in the store, the groups after it are not written, and add_triples
\* ends by raising.
C7_PartialIngestion ==
    (\E i \in DOMAIN writes : ~writes[i].committed) =>
        LET n == Len(writes) IN
        /\ Raised
        /\ \A i \in 1..(n - 1) : writes[i].committed
        /\ ~writes[n].committed
        /\ grouped_triples # <<>> /\ Head(grouped_triples).rel_type = writes[n].rel_type
        /\ \A i \in 1..(n - 1) : \A k \in DOMAIN writes[i].pairs :
              LET pair == writes[i].pairs[k] IN
              /\ BagIn(pair[1], entities) /\ BagIn(pair[2], entities)
              /\ BagIn(<<pair[1], writes[i].rel_type, pair[2]>>, relationships)
        /\ \A r \in BagToSet(relationships) \ BagToSet(pre_relationships) :
              \E i \in 1..(n - 1) : writes[i].rel_type = r[2]
        /\ \A e \in BagToSet(entities) \ BagToSet(pre_entities) :
              \E i \in 1..(n - 1) : \E k \in DOMAIN writes[i].pairs : e \in Range(writes[i].pairs[k])

\* the second of three groups failed: the first is stored, the third is not
C7_Witness ==
    /\ Raised
    /\ Len(writes) = 2 /\ Len(grouped_triples) = 2
    /\ BagToSet(relationships) # BagToSet(pre_relationships)
    /\ \A k \in DOMAIN grouped_triples[2].pairs :
          ~BagIn(<<grouped_triples[2].pairs[k][1], grouped_triples[2].rel_type,
                   grouped_triples[2].pairs[k][2]>>, relationships)

\* C8: add_triples issues one write operation per distinct non-empty sanitized
\* relation type of its input, never two for one type; a call that returns
\* has issued exactly one for each, and for the example input exactly one
\* write, which carries all three pairs.
C8_OneWritePerType ==
    /\ \A i, j \in DOMAIN writes : writes[i].rel_type = writes[j].rel_type => i = j
    /\ \A i \in DOMAIN writes : \E t \in KeptTriples : writes[i].rel_type = sanitize(t[2])
    /\ Returned =>
          /\ {writes[i].rel_type : i \in DOMAIN writes} = {sanitize(t[2]) : t \in KeptTriples}
          /\ Len(writes) = Cardinality({sanitize(t[2]) : t \in KeptTriples})
    /\ Returned /\ triples = ExampleTriples =>
          /\ Len(writes) = 1
          /\ writes[1].pairs = << <<A, B>>, <<A, B>>, <<C, D>> >>

C8_Witness ==
    /\ Returned
    /\ triples = ExampleTriples
    /\ Len(writes) = 1
    /\ Len(writes[1].pairs) = 3

\* C9: a triple whose relation sanitizes to "" is ignored: a call that returns
\* has stored the Entities and relationships of its other triples and nothing
\* else, and a call made only of such triples issues no write and returns.
C9_EmptyRelationDropped ==
    /\ Returned =>
          /\ BagToSet(entities) =
                BagToSet(pre_entities) \cup UNION {{t[1], t[3]} : t \in KeptTriples}
          /\ BagToSet(relationships) =
                BagToSet(pre_relationships)
                    \cup {<<t[1], sanitize(t[2]), t[3]>> : t \in KeptTriples}
    /\ (pc \in {"add_triples", "add_triples_done"} /\ KeptTriples = {}) =>
          Returned /\ writes = <<>> /\ StoreUnchangedByCall

\* a dropped triple next to a stored one: D is named by the dropped triple only
C9_Witness ==
    /\ Returned
    /\ triples = << <<D, dots, A>>, <<B, imposed, C>> >>
    /\ ~BagIn(D, entities) /\ ~BagIn(A, entities)
    /\ BagIn(<<B, sanitize(imposed), C>>, relationships)

-----------------------------------------------------------------------------
(* Properties of the relation sanitizer.                                    *)

RECURSIVE SanitizedAsStated(_)
\* the claim's description, character by character: whitespace becomes "_",
\* any other character outside [A-Za-z0-9_] goes, the rest is upper-cased
SanitizedAsStated(label) ==
    IF label = <<>> THEN <<>>
    ELSE LET c == Head(label) IN
         (IF c \in WhitespaceChars THEN <<"_">>
          ELSE IF c \in WordChars THEN <<UpperChar(c)>>
          ELSE <<>>) \o SanitizedAsStated(Tail(label))

RECURSIVE SanitizedSpaceOnly(_)
\* the same with the space character as the only character that becomes "_"
SanitizedSpaceOnly(label) ==
    IF label = <<>> THEN <<>>
    ELSE LET c == Head(label) IN
         (IF c = " " THEN <<"_">>
          ELSE IF c \in WordChars THEN <<UpperChar(c)>>
          ELSE <<>>) \o SanitizedSpaceOnly(Tail(label))

IS_A == <<"I","S","_","A">>
IMPOSED_FINE_ON == <<"I","M","P","O","S","E","D","_","F","I","N","E","_","O","N">>

\* C6 as stated: the sanitized relation is the label with every whitespace
\* character replaced by "_", other characters outside [A-Za-z0-9_] removed,
\* and the result upper-cased.
C6_AsStated == pc = "sanitized" => sanitized_rel = SanitizedAsStated(rel)

\* C6 amended: the sanitized relation is the label with every space character
\* replaced by "_", every other character outside [A-Za-z0-9_] (tabs and line
\* breaks included) removed, and the result upper-cased; "is a" gives "IS_A",
\* "Imposed Fine On!" gives "IMPOSED_FINE_ON", "..." gives "".
C6_Sanitized ==
    pc = "sanitized" =>
        /\ sanitized_rel = SanitizedSpaceOnly(rel)
        /\ rel = is_a => sanitized_rel = IS_A
        /\ rel = imposed => sanitized_rel = IMPOSED_FINE_ON
        /\ rel = dots => sanitized_rel = <<>>

C6_Witness == pc = "sanitized" /\ rel = imposed /\ sanitized_rel = IMPOSED_FINE_ON

-----------------------------------------------------------------------------
(* Properties of the query translator and of the question flow.             *)

\* the candidate query: the trimmed output of the text-generation service,
\* or the content of its first fenced segment when it has one
Candidate(output) ==
    IF contains(FENCE, strip(output)) THEN split(strip(output), FENCE)[2]
    ELSE strip(output)

\* one of CREATE, SET, DELETE, MERGE occurs in q, in any letter case
HasWriteToken(q) == \E op \in WriteOps : contains(lower(op), lower(q))

GenerateCypherReturned == gen_outcome = "returned" /\ ~llm_output.raised

\* C2: whenever the candidate query contains CREATE, SET, DELETE or MERGE in
\* any letter case, anywhere, generate_cypher returns None and no query.
C2_GuardBlocksWriteTokens ==
    (GenerateCypherReturned /\ HasWriteToken(Candidate(llm_output.text)))
        => cypher_query.none

\* the clauses of the graph query language that change the graph: the four
\* of the guard and REMOVE, which deletes a property or a label
MutatingClauses == WriteOps \cup { <<"R","E","M","O","V","E">> }

IsMutating(q) == \E op \in MutatingClauses : contains(lower(op), lower(q))

\* C3: generate_cypher never returns a query that contains a mutating
\* construct, whatever the text-generation service answers.
C3_NeverReturnsMutation ==
    (gen_outcome = "returned" /\ ~cypher_query.none) => ~IsMutating(cypher_query.text)

CouldNotGenerate == "Could not generate a valid query."

\* C5: when generate_cypher rejects the generated query for a write token,
\* it returns None instead of raising, the flow sends no generated query (and
\* no other query of its own) to the store, and the question is answered with
\* "Could not generate a valid query."
C5_RejectionIsAnswered ==
    rejected =>
        /\ gen_outcome = "returned"
        /\ cypher_query = None
        /\ pc \in {"run_query", "answered"}
        /\ \A i \in DOMAIN reads : reads[i].kind \in {"db.labels", "db.relationshipTypes"}
        /\ pc = "answered" => response_text = CouldNotGenerate

\* a DETACH DELETE query was rejected and the question answered
C5_Witness ==
    /\ pc = "answered"
    /\ rejected
    /\ llm_output.text = q_DELETE
    /\ response_text = CouldNotGenerate
    /\ Len(reads) = 2

\* C10: when the extraction yields no candidate name, search_graph returns
\* the empty sequence and sends no read query to the store.
C10_EmptyEntitiesShortCircuit ==
    (sg_called /\ sg_entities = <<>>) =>
        /\ raw_data = <<>>
        /\ \A i \in DOMAIN reads : reads[i].kind # "search"
        /\ response_text = "answer"

\* the model answered with separators only: no name is left after the cleaning
C10_Witness ==
    /\ sg_called
    /\ entity_string = <<" ", ",", " ">>
    /\ sg_entities = <<>>
    /\ raw_data = <<>>
    /\ BagToSet(relationships) # {}


-----------------------------------------------------------------------------
(* Properties of the retrieval and of the visualization.                    *)

SearchReads == {i \in DOMAIN reads : reads[i].kind = "search"}

\* the rows that match the candidate names in the store, without a limit
MatchingRows == unwind_rows(sg_entities, SetToSeq(BagToSet(relationships)))

\* C11: search_graph sends at most one read query to the store and returns
\* at most 25 rows, also when more than 25 rows match its candidate names.
C11_BoundedRetrieval ==
    sg_called =>
        /\ Cardinality(SearchReads) <= 1
        /\ Len(raw_data) <= 25

\* more than 25 rows match, and search_graph returned 25 from one read
C11_Witness ==
    /\ sg_called
    /\ Len(MatchingRows) > 25
    /\ Len(raw_data) = 25
    /\ Cardinality(SearchReads) = 1

WellFormedRows == {r \in Range(raw_data) : r.node # <<>> /\ r.target # <<>>}

\* the ordered triples (source name, relationship type, target name) of the
\* well-formed rows
RowTriples == {<<r.node, r.relationship, r.target>> : r \in WellFormedRows}

RowNodeNames == {r.node : r \in WellFormedRows} \cup {r.target : r \in WellFormedRows}

NoRepeats(seq) == \A i, j \in DOMAIN seq : seq[i] = seq[j] => i = j

EdgeTriples == {<<edges[i].source, edges[i].label, edges[i].target>> : i \in DOMAIN edges}

OneNodePerName == NoRepeats(nodes) /\ Range(nodes) = RowNodeNames

\* C12: the model built by visualize_subgraph has exactly one node per
\* distinct name that is source or target of a well-formed row, and exactly
\* one edge per distinct ordered triple (source, type, target) of those rows.
C12_OneNodeOneEdge ==
    pc = "built" =>
        /\ OneNodePerName
        /\ Len(edges) = Cardinality(RowTriples)
        /\ EdgeTriples = RowTriples

\* the node half of C12, and the rows of its example give 3 nodes and 2 edges
C12_NodesAndExample ==
    pc = "built" =>
        /\ OneNodePerName
        /\ raw_data = ExampleRows => Len(nodes) = 3 /\ Len(edges) = 2

MalformedRows == Range(raw_data) \ WellFormedRows

EdgeIds == {edges[i].id : i \in DOMAIN edges}

\* C22: a result row whose source name or target name is missing adds no
\* node and no edge to the model built by visualize_subgraph (every node and
\* every edge of the model comes from a row with both names), and the other
\* rows of the result are still processed (each of their names is a node and
\* each of their edge ids is an edge of the model).
C22_MalformedRowsSkipped ==
    pc = "built" =>
        /\ <<>> \notin Range(nodes)
        /\ Range(nodes) \subseteq RowNodeNames
        /\ EdgeTriples \subseteq RowTriples
        /\ RowNodeNames \subseteq Range(nodes)
        /\ \A r \in WellFormedRows : edge_id(r.node, r.relationship, r.target) \in EdgeIds

\* a row without its source name, then a row with both names: the model has
\* the two nodes and the edge of the second row
C22_Witness ==
    /\ pc = "built"
    /\ raw_data = << [node |-> <<>>, relationship |-> R, target |-> A_R_A],
                     [node |-> A, relationship |-> FOUNDED, target |-> B] >>
    /\ MalformedRows # {}
    /\ nodes = <<A, B>>
    /\ EdgeTriples = {<<A, FOUNDED, B>>}

-----------------------------------------------------------------------------
(* Properties of the driver sessions.                                       *)

Acquired(log) == Cardinality({i \in DOMAIN log : log[i] = "acquire"})
Released(log) == Cardinality({i \in DOMAIN log : log[i] = "release"})

\* the sessions open after the first k events of the log
OpenAfter(k) == Acquired(SubSeq(session_log, 1, k)) - Released(SubSeq(session_log, 1, k))

\* C13: every write of a relation group and every read query runs in a
\* session of its own, which is released when the operation returns or
\* raises: at no point of an operation is more than one session open, none is
\* open when control is back at the caller, and add_triples and the question
\* flow have acquired as many sessions as they have sent writes or reads.
C13_SessionPerOperation ==
    /\ \A k \in 0..Len(session_log) : OpenAfter(k) \in {0, 1}
    /\ OpenAfter(Len(session_log)) = 0
    /\ pc \in {"add_triples", "add_triples_done"} => Acquired(session_log) = Len(writes)
    /\ pc \in {"generate_cypher", "run_query", "visualize_subgraph", "answered"}
          => Acquired(session_log) = Len(reads)

\* add_triples raised at its second group: two sessions, both released
C13_Witness ==
    /\ Raised
    /\ Len(writes) = 2
    /\ ~writes[2].committed
    /\ Acquired(session_log) = 2
    /\ Released(session_log) = 2

-----------------------------------------------------------------------------
(* Properties of the triple parser.                                         *)

\* the pieces of s between the occurrences of the character ch
Pieces(s, ch) ==
    LET cuts == {0, Len(s) + 1} \cup {i \in DOMAIN s : s[i] = ch}
        nth(k) == CHOOSE i \in cuts : Cardinality({j \in cuts : j <= i}) = k
    IN  [k \in 1..(Cardinality(cuts) - 1) |-> SubSeq(s, nth(k) + 1, nth(k + 1) - 1)]

\* the lines of the answer, without the blanks around the whole of it
AnswerLines == Pieces(strip(pdf_response.text), "\n")

ThreeFields(line) == Cardinality({i \in DOMAIN line : line[i] = "|"}) = 2

\* a field without the whitespace and quote characters at its ends
StrippedField(f) == strip_chars(f, WhitespaceChars \cup quote_chars)

\* a field without the whitespace around it, then without the quote
\* characters around what is left (whitespace inside the quotes stays)
CleanedField(f) == strip_chars(strip_chars(f, WhitespaceChars), quote_chars)

StatedTriple(line) ==
    <<StrippedField(Pieces(line, "|")[1]), StrippedField(Pieces(line, "|")[2]),
      StrippedField(Pieces(line, "|")[3])>>

CleanedTriple(line) ==
    <<CleanedField(Pieces(line, "|")[1]), CleanedField(Pieces(line, "|")[2]),
      CleanedField(Pieces(line, "|")[3])>>

NoEmptyField(t) == t[1] # <<>> /\ t[2] # <<>> /\ t[3] # <<>>

\* the values of f at the positions of seq that satisfy keep, in order
MapKept(seq, keep(_), f(_)) ==
    LET idx == {i \in DOMAIN seq : keep(seq[i])}
    IN  [k \in 1..Cardinality(idx) |->
            f(seq[CHOOSE i \in idx : Cardinality({j \in idx : j <= i}) = k])]

\* C14 as stated: the parser maps each line with exactly three pipe-separated
\* fields to the triple of its fields without surrounding whitespace and
\* quote characters, and discards every other line.
C14_AsStated ==
    pc = "parsed" => triples = MapKept(AnswerLines, ThreeFields, StatedTriple)

KeptLine(line) == ThreeFields(line) /\ NoEmptyField(CleanedTriple(line))

\* C14 amended: the parser maps each line with exactly three pipe-separated
\* fields, none of them empty once cleaned, to the triple of its cleaned
\* fields (surrounding whitespace stripped, then surrounding quote
\* characters), in line order, and discards every other line without error.
C14_Parsed ==
    pc = "parsed" => triples = MapKept(AnswerLines, KeptLine, CleanedTriple)

JohnDoe == <<"J","o","h","n"," ","D","o","e">>
IS_A_type == <<"I","S","_","A">>
Director == <<"D","i","r","e","c","t","o","r">>

\* the answer with the quoted line, blank and malformed lines is parsed to
\* its three triples, the first being (John Doe, IS_A, Director)
C14_Witness ==
    /\ pc = "parsed"
    /\ pdf_response.text = mixed_lines
    /\ triples = << <<JohnDoe, IS_A_type, Director>>, <<C, founded, D>>,
                    <<<<" ", "A", " ">>, R, B>> >>

-----------------------------------------------------------------------------
(* Properties of the schema that generate_cypher embeds.                    *)

StoredLabels == IF BagToSet(entities) = {} THEN {} ELSE {"Entity"}
StoredTypes == {r[2] : r \in BagToSet(relationships)}

\* C15: every generate_cypher call reads the schema from the store before it
\* builds its prompt: the schema in the prompt is the one the store has at
\* that call, with the labels and types of every add_triples call that
\* completed before it, whatever an earlier request embedded.
C15_SchemaIsFresh ==
    gen_outcome = "returned" =>
        /\ prompt_schema.node_labels = StoredLabels
        /\ prompt_schema.relationship_types = StoredTypes
        /\ Len(reads) >= 2
        /\ reads[1].kind = "db.labels"
        /\ reads[2].kind = "db.relationshipTypes"

\* a request embeds two relationship types after an earlier request of the
\* session embedded one of them only
C15_Witness ==
    /\ gen_outcome = "returned"
    /\ last_schema.relationship_types = {FOUNDED}
    /\ prompt_schema.relationship_types = {FOUNDED, sanitize(imposed)}

-----------------------------------------------------------------------------
(* Properties of the fenced-block extraction.                               *)

cypher_tag == <<"c","y","p","h","e","r">>

\* s without the language tag it starts with, if it starts with one
WithoutTag(s) ==
    IF Len(s) >= Len(cypher_tag) /\ SubSeq(s, 1, Len(cypher_tag)) = cypher_tag
    THEN SubSeq(s, Len(cypher_tag) + 1, Len(s))
    ELSE s

\* the content of the first fenced segment of the output, without a leading
\* language tag and without the whitespace around it
FencedContent(output) == strip(WithoutTag(strip(split(strip(output), FENCE)[2])))

HasFence == contains(FENCE, strip(llm_output.text))

\* C16: when the output of the text-generation service has a fenced segment,
\* the candidate query that generate_cypher checks and returns is exactly the
\* content of the first fenced segment without its leading language tag and
\* without surrounding whitespace: it is returned unchanged, or rejected
\* when it holds a write operation.
C16_FencedContentExact ==
    (GenerateCypherReturned /\ HasFence) =>
        cypher_query =
            IF \E op \in WriteOps : contains(op, upper(FencedContent(llm_output.text)))
            THEN None
            ELSE Str(FencedContent(llm_output.text))

\* the retrieval returned r from both of its ends
BothDirections(r) ==
    /\ r[1] # r[3]
    /\ <<r[3], r[2], r[1]>> \notin BagToSet(relationships)
    /\ [node |-> r[1], relationship |-> r[2], target |-> r[3]] \in Range(raw_data)
    /\ [node |-> r[3], relationship |-> r[2], target |-> r[1]] \in Range(raw_data)

EdgesBetween(r) ==
    {i \in DOMAIN edges :
        /\ edges[i].label = r[2]
        /\ {edges[i].source, edges[i].target} = {r[1], r[3]}}

\* C17: when the retrieval returns a stored relationship from both traversal
\* directions, the model built by visualize_subgraph has a single edge for it.
C17_BothDirectionsOneEdge ==
    sg_called =>
        \A r \in BagToSet(relationships) :
            BothDirections(r) => Cardinality(EdgesBetween(r)) = 1

\* C18: the candidate names that search_graph passes to its read query
\* contain no duplicate string.
C18_NoDuplicateCandidates ==
    \A i \in SearchReads : NoRepeats(reads[i].arg)

-----------------------------------------------------------------------------
(* Properties of concurrent writers and of the ingestion loop.              *)

BothReturned ==
    /\ pc = "concurrent"
    /\ callers.calls[1].outcome = "returned"
    /\ callers.calls[2].outcome = "returned"

\* the triples of both arguments whose relation does not sanitize to ""
BothInputs ==
    {t \in Range(callers.calls[1].triples) \cup Range(callers.calls[2].triples) :
        sanitize(t[2]) # <<>>}

\* C19: when two callers run add_triples at once and each group write is
\* atomic in the store, then however their writes interleave, once both have
\* returned the store holds exactly the union of both inputs: one Entity per
\* name, one relationship per (subject, type, object), none lost.
C19_ConcurrentUnion ==
    BothReturned =>
        /\ entities = SetToBag({t[1] : t \in BothInputs} \cup {t[3] : t \in BothInputs})
        /\ relationships = SetToBag({<<t[1], sanitize(t[2]), t[3]>> : t \in BothInputs})

\* two calls with the relationship (A, FOUNDED, B) in common returned, and
\* one of them wrote a group while the other was between two of its writes
C19_Witness ==
    /\ BothReturned
    /\ callers.overlapped
    /\ callers.calls[1].triples = << <<A, founded, B>>, <<B, imposed, C>> >>
    /\ callers.calls[2].triples = << <<B, imposed, C>>, <<A, Founded, B>> >>
    /\ callers.calls[1].written = 2
    /\ callers.calls[2].written = 2

Ingesting == pc \in {"ingest", "ingest_write", "all_processed", "aborted"}

\* what the store had when the document at hand was started is still there,
\* as it was
EarlierCommitsKept ==
    /\ \A n \in BagToSet(pre_entities) : CopiesIn(n, entities) = CopiesIn(n, pre_entities)
    /\ \A r \in BagToSet(pre_relationships) :
          CopiesIn(r, relationships) = CopiesIn(r, pre_relationships)

\* the relationships a document asks for
DocRelationships(d) ==
    {<<t[1], sanitize(t[2]), t[3]>> :
        t \in {u \in Range(parse_response(d.text)) : sanitize(u[2]) # <<>>}}

\* C20: when the ingestion of one uploaded document fails, by an error of the
\* text-generation service or of the store, what earlier documents committed
\* stays in the store unchanged, and the remaining documents of the upload
\* are still processed: the loop ends only when every document has its
\* outcome, and every document that succeeded has its relationships stored.
C20_FailureIsLocal ==
    Ingesting =>
        /\ EarlierCommitsKept
        /\ pc \in {"all_processed", "aborted"} => Len(file_status) = Len(uploaded_files)
        /\ \A i \in DOMAIN file_status :
              file_status[i] = "success" =>
                  DocRelationships(uploaded_files[i]) \subseteq BagToSet(relationships)

\* the second of three documents failed at a write; the first and the third
\* are in the store
C20_Witness ==
    /\ pc = "all_processed"
    /\ uploaded_files = ExampleFiles
    /\ file_status = <<"success", "error", "success">>
    /\ BagToSet(relationships) = {<<A, FOUNDED, B>>, <<A, sanitize(is_a), A>>}
-----------------------------------------------------------------------------
(* Properties of the store across operations.                               *)

\* a step of a read operation: check_if_graph_exists of a new session,
\* get_schema in generate_cypher, or search_graph in visualize_subgraph
ReadOperationStep ==
    \/ pc = "idle" /\ pc' = "idle"
    \/ pc \in {"generate_cypher", "visualize_subgraph"}

\* C21: across any sequence of add_triples, get_schema, generate_cypher,
\* search_graph, check_if_graph_exists and visualize_subgraph calls, no step
\* removes an Entity or a relationship from the store (the sets of both only
\* grow), and the steps of the read operations leave the store unchanged.
C21_StoreOnlyGrows ==
    [][ /\ BagToSet(entities) \subseteq BagToSet(entities')
        /\ BagToSet(relationships) \subseteq BagToSet(relationships')
        /\ ReadOperationStep => UNCHANGED store_vars ]_vars

\* a question was answered with both reads of the schema and the retrieval
\* on a store that an earlier add_triples call had filled, and the store
\* still holds what that call wrote
C21_Witness ==
    /\ pc = "answered"
    /\ graph_built
    /\ gen_outcome = "returned"
    /\ sg_called /\ Len(reads) >= 3
    /\ BagToSet(entities) = {A, B}
    /\ BagToSet(relationships) = {<<A, sanitize(founded), B>>}

\* the store that holds the Entities and relationships of a set of triples,
\* and nothing else
StoreOf(S) ==
    LET kept == {t \in S : sanitize(t[2]) # <<>>}
    IN  [entities      |-> SetToBag({t[1] : t \in kept} \cup {t[3] : t \in kept}),
         relationships |-> SetToBag({<<t[1], sanitize(t[2]), t[3]>> : t \in kept})]

NoWriteFailed == pc = "idle" /\ ~call_history.failed

\* C23: when no write fails, the store after add_triples calls depends only
\* on the set of triples handed over: whatever the order of the triples and
\* however they are split into consecutive calls, the Entities and the
\* relationships are those of that set.
C23_OrderAndSplitIndependent ==
    NoWriteFailed =>
        /\ entities = StoreOf(Range(handed_over)).entities
        /\ relationships = StoreOf(Range(handed_over)).relationships

\* the three triples of ThreeTypes in another order and in two calls, with
\* the store that one call with ThreeTypes gives
C23_Witness ==
    /\ NoWriteFailed
    /\ call_history.calls =
          << << <<B, imposed, C>>, <<A, is_a, A>> >>, << <<A, founded, B>> >> >>
    /\ store = run_write(run_write(run_write(StoreOf({}), IS_A, << <<A, A>> >>),
                                   FOUNDED, << <<A, B>> >>),
                         IMPOSED_FINE_ON, << <<B, C>> >>)

====
